---- MODULE Spec2Model ----
(***************************************************************************)
(* Model of automate.go: the optimisation selector (getBestSoftwareAlgo),  *)
(* the launch spec builder (changeAlgoGetParams), the heartbeat (checkIn), *)
(* the process launch (openProcess) and the control loop of main.          *)
(***************************************************************************)
EXTENDS Integers, Sequences, FiniteSets, TLC

VARIABLES
    config,         \* Config: OptimizationCheckTime, UseEstimates, EmailServer set or not
    argStrings,     \* columns miner_softwares.other_params and miner_software_algos.extra_params
    extPref,        \* history: the send_email value another program wrote last, "none" before any
    samples,        \* table miner_stats, in id order (id = index)
    poolStats,      \* table pool_stats, in id order (id = index)
    doNotUse,       \* column miner_software_algos.do_not_use, per row id
    minerSoftwares, \* ids of the rows present in table miner_softwares
    filePaths,      \* softwares with a miner_miner_softwares row (file path) for this miner
    dbMiner,        \* the persisted miners row of this miner
    thisMiner,      \* main's in-memory Miner struct
    tx,             \* changeAlgoGetParams' open transaction: its uncommitted Save
    pc,             \* position of the program
    site,           \* which call of changeAlgoGetParams/openProcess is running
    best,           \* bestSoftwareAlgo / optimizationAlgo: the selected row's id
    launch,         \* main's (filePath, params)
    procState,      \* the process behind main's proc handle
    runSpec,        \* the launch spec the process behind proc was started with
    killed,         \* a kill has been issued through the current proc handle
    orphan,         \* an earlier worker was still alive when its successor was started
    exists,         \* main's exists (last probe result)
    timesKilled,    \* main's timesKilled
    kills,          \* Kill+Wait attempts made in the running termination
    secondsSlept,   \* main's secondsSlept
    clock,          \* polling ticks slept so far (time.Now in ticks)
    selRuns,        \* getBestSoftwareAlgo calls so far
    lastNotice,     \* whether the last changeAlgoGetParams requested the e-mail
    envEvents,      \* writes made so far by the other programs
    exitReason      \* why the program ended

vars == <<config, argStrings, extPref, samples, poolStats, doNotUse, minerSoftwares, filePaths, dbMiner, thisMiner,
          tx, pc, site, best, launch, procState, runSpec, killed, orphan, exists,
          timesKilled, kills, secondsSlept, clock, selRuns, lastNotice,
          envEvents, exitReason>>

(***************************************************************************)
(* Bounds of the model.                                                    *)
(***************************************************************************)
MaxSamples == 2
MaxPoolStats == 2
MaxTicks == 2
MaxPeriodTicks == 2
MaxEnvEvents == 1
MaxArgLen == 2

(***************************************************************************)
(* Program constants.                                                      *)
(***************************************************************************)
maxKillNumber == 1000
processCheckTime == 30

(***************************************************************************)
(* The catalog this miner runs against: two algorithms, each with one      *)
(* pool, two miner softwares, and one miner_software_algos row for each    *)
(* (software, algorithm) pair that is mined.                               *)
(***************************************************************************)
ThisMinerID == 1
ComboIds == {1, 2}
SoftwareIds == {1, 2}
AlgorithmIds == {1, 2}
PoolIds == {1, 2}

\* miner_software_algos rows: ID, MinerSoftwareID, AlgorithmID, Name, ExtraParams
MinerSoftwareAlgosRows ==
    [c \in ComboIds |->
        IF c = 1
        THEN [ID |-> 1, MinerSoftwareID |-> 1, AlgorithmID |-> 1, Name |-> "x17",
              ExtraParams |-> <<>>]
        ELSE [ID |-> 2, MinerSoftwareID |-> 2, AlgorithmID |-> 2, Name |-> "yescrypt",
              ExtraParams |-> <<"-", "i", " ", "9">>]]

\* miner_softwares rows: Name and the parameter flags
MinerSoftwareRows ==
    [s \in SoftwareIds |->
        IF s = 1
        THEN [ID |-> 1, Name |-> "worker", AlgoParam |-> "--algo", PoolParam |-> "--pool",
              WalletParam |-> "--wallet", PasswordParam |-> "--pass",
              OtherParams |-> <<>>]
        ELSE [ID |-> 2, Name |-> "cpuminer", AlgoParam |-> "-a", PoolParam |-> "-o",
              WalletParam |-> "-u", PasswordParam |-> "-p",
              OtherParams |-> <<"-", "q">>]]

\* miner_miner_softwares.file_path of this miner, for the softwares that have one
FilePathRows == [s \in SoftwareIds |-> IF s = 1 THEN "/bin/worker" ELSE "/bin/cpuminer"]

\* pools rows: one pool per algorithm, with its mh_factor
PoolRows == [p \in PoolIds |-> [ID |-> p, AlgorithmID |-> p, MhFactor |-> IF p = 1 THEN 1 ELSE 2]]

\* coin_prices rows: id -> price
CoinPriceRows == [k \in {1, 2} |-> IF k = 1 THEN 2 ELSE 3]

\* The rows the statistics programs can add.
SampleDomain ==
    { s \in [MinerID : {ThisMinerID}, MinerSoftwareID : {1, 2}, AlgorithmID : {1, 2},
             WorkPerSecond : {1, 4}, MhFactor : {1, 2}] :
        /\ s.MinerSoftwareID = s.AlgorithmID
        /\ s.MinerSoftwareID = 2 => s.MhFactor = 2 }

PoolStatDomain ==
    { [PoolID |-> p, CoinPriceID |-> 1, ProfitEstimate |-> 3, ProfitActual24Hours |-> 1] :
        p \in PoolIds }
    \cup
    { [PoolID |-> p, CoinPriceID |-> 2, ProfitEstimate |-> 1, ProfitActual24Hours |-> 2] :
        p \in PoolIds }

SeqsUpTo(S, n) == UNION { [1..k -> S] : k \in 0..n }

(***************************************************************************)
(* getBestSoftwareAlgo: the query, subquery by subquery.                   *)
(***************************************************************************)
RECURSIVE SumWork(_, _)
SumWork(st, ids) ==
    IF ids = {} THEN 0
    ELSE LET i == CHOOSE j \in ids : TRUE
         IN st[i].WorkPerSecond + SumWork(st, ids \ {i})

\* subAvgWork: AVG(work_per_second) GROUP BY miner, software, algorithm, mh_factor.
\* The average is kept as the pair (sum, count).
subAvgWork(st, minerID) ==
    { [MinerSoftwareID |-> st[i].MinerSoftwareID, AlgorithmID |-> st[i].AlgorithmID,
       MhFactor |-> st[i].MhFactor,
       WorkSum |-> SumWork(st, { j \in DOMAIN st :
                        /\ st[j].MinerID = minerID
                        /\ st[j].MinerSoftwareID = st[i].MinerSoftwareID
                        /\ st[j].AlgorithmID = st[i].AlgorithmID
                        /\ st[j].MhFactor = st[i].MhFactor }),
       WorkCount |-> Cardinality({ j \in DOMAIN st :
                        /\ st[j].MinerID = minerID
                        /\ st[j].MinerSoftwareID = st[i].MinerSoftwareID
                        /\ st[j].AlgorithmID = st[i].AlgorithmID
                        /\ st[j].MhFactor = st[i].MhFactor })] :
      i \in { j \in DOMAIN st : st[j].MinerID = minerID } }

\* subLatestStat: MAX(id) GROUP BY miner, software, algorithm.
subLatestStat(st, minerID) ==
    { [MinerSoftwareID |-> st[i].MinerSoftwareID, AlgorithmID |-> st[i].AlgorithmID,
       LatestStatID |-> i] :
      i \in { j \in DOMAIN st :
                /\ st[j].MinerID = minerID
                /\ \A k \in DOMAIN st :
                     (/\ st[k].MinerID = minerID
                      /\ st[k].MinerSoftwareID = st[j].MinerSoftwareID
                      /\ st[k].AlgorithmID = st[j].AlgorithmID) => k <= j } }

\* subLatestPoolStat: MAX(id) GROUP BY pool_id.
subLatestPoolStat(ps) ==
    { [PoolID |-> ps[i].PoolID, ID |-> i] :
      i \in { j \in DOMAIN ps : \A k \in DOMAIN ps : ps[k].PoolID = ps[j].PoolID => k <= j } }

\* The inner joins of the main query, before the WHERE clause.
JoinedRows(st, ps, sws, minerID) ==
    { [Combo |-> c, PoolID |-> p, WorkSum |-> a.WorkSum, WorkCount |-> a.WorkCount,
       StatMhFactor |-> a.MhFactor, PoolMhFactor |-> PoolRows[p].MhFactor,
       Price |-> CoinPriceRows[ps[lp.ID].CoinPriceID],
       ProfitEstimate |-> ps[lp.ID].ProfitEstimate,
       ProfitActual24Hours |-> ps[lp.ID].ProfitActual24Hours] :
      <<ls, c, p, lp, a>> \in
        { q \in subLatestStat(st, minerID) \X ComboIds \X PoolIds
                  \X subLatestPoolStat(ps) \X subAvgWork(st, minerID) :
            /\ q[1].MinerSoftwareID \in sws
            /\ q[1].AlgorithmID \in AlgorithmIds
            /\ MinerSoftwareAlgosRows[q[2]].AlgorithmID = q[1].AlgorithmID
            /\ MinerSoftwareAlgosRows[q[2]].MinerSoftwareID = q[1].MinerSoftwareID
            /\ PoolRows[q[3]].AlgorithmID = q[1].AlgorithmID
            /\ q[4].PoolID = q[3]
            /\ ps[q[4].ID].CoinPriceID \in DOMAIN CoinPriceRows
            /\ q[5].MinerSoftwareID = q[1].MinerSoftwareID
            /\ q[5].AlgorithmID = q[1].AlgorithmID } }

\* A WHERE clause that forgets do_not_use.
WhereClauseUnfiltered(rows, dnu) == rows

\* WHERE ... AND (do_not_use IS NULL OR do_not_use = FALSE)
WhereClause(rows, dnu) == { r \in rows : dnu[r.Combo] \in {"NULL", "FALSE"} }

\* orderLogic, as the fraction Num/Den (every mh_factor and every count is positive):
\*   price*profit_estimate*(average_stat.mh_factor / pools.mh_factor)*average_work
\*   price*0.001*profit_actual24_hours*(average_stat.mh_factor / pools.mh_factor)*average_work
\* The two modes taken for each other.
OrderNumSwapped(r, useEstimates) ==
    IF useEstimates = 0
    THEN r.Price * r.ProfitEstimate * r.StatMhFactor * r.WorkSum
    ELSE r.Price * r.ProfitActual24Hours * r.StatMhFactor * r.WorkSum

OrderNum(r, useEstimates) ==
    IF useEstimates = 0
    THEN r.Price * r.ProfitActual24Hours * r.StatMhFactor * r.WorkSum
    ELSE r.Price * r.ProfitEstimate * r.StatMhFactor * r.WorkSum

OrderDen(r, useEstimates) ==
    IF useEstimates = 0
    THEN 1000 * r.PoolMhFactor * r.WorkCount
    ELSE r.PoolMhFactor * r.WorkCount

\* r sorts strictly before q under ORDER BY orderLogic DESC
SortsBefore(r, q, useEstimates) ==
    OrderNum(r, useEstimates) * OrderDen(q, useEstimates)
        > OrderNum(q, useEstimates) * OrderDen(r, useEstimates)

\* Limit(1) without the Order: any row can come first.
OrderLimitUnordered(rows, useEstimates) == rows

\* Order(orderLogic).Limit(1): the rows that can come first in a descending order
OrderLimit1(rows, useEstimates) ==
    { r \in rows : \A q \in rows : ~SortsBefore(q, r, useEstimates) }

\* The ids the query can return; empty when it finds no row (the zero-value struct).
getBestSoftwareAlgo(st, ps, dnu, sws, minerID, useEstimates) ==
    { r.Combo : r \in OrderLimit1(WhereClause(JoinedRows(st, ps, sws, minerID), dnu),
                                  useEstimates) }


(***************************************************************************)
(* changeAlgoGetParams: the argument list.  A string is a sequence of      *)
(* symbols, " " being the space; a name is a string of one symbol.         *)
(***************************************************************************)
Wallet == <<"W">>
PoolPassword == <<"x">>

\* GeneratePoolURL: the pool endpoint of an algorithm (external collaborator)
GeneratePoolURL(algorithmID) ==
    IF algorithmID = 1 THEN <<"stratum+tcp://p:3333">> ELSE <<"stratum+tcp://q:4444">>

\* strings.Split(s, " "): the pieces between single spaces, empty pieces included
RECURSIVE Split(_)
Split(s) ==
    IF \A i \in DOMAIN s : s[i] # " " THEN <<s>>
    ELSE LET k == CHOOSE i \in DOMAIN s : s[i] = " " /\ \A j \in 1..(i - 1) : s[j] # " "
         IN <<SubSeq(s, 1, k - 1)>> \o Split(SubSeq(s, k + 1, Len(s)))

BuildParams(c) ==
    LET algo == MinerSoftwareAlgosRows[c]
        soft == MinerSoftwareRows[algo.MinerSoftwareID]
        core == << <<soft.Name>>,
                   <<soft.AlgoParam>>, <<algo.Name>>,
                   <<soft.PoolParam>>, GeneratePoolURL(algo.AlgorithmID),
                   <<soft.WalletParam>>, Wallet,
                   <<soft.PasswordParam>>, PoolPassword >>
        otherParams == argStrings.OtherParams[algo.MinerSoftwareID]
        extraParams == argStrings.ExtraParams[c]
        other == IF Len(otherParams) > 0 THEN Split(otherParams) ELSE <<>>
        extra == IF Len(extraParams) > 0 THEN Split(extraParams) ELSE <<>>
    IN core \o other \o extra

LaunchSpecOf(c) ==
    [filePath |-> FilePathRows[MinerSoftwareAlgosRows[c].MinerSoftwareID],
     params |-> BuildParams(c)]

\* what changeAlgoGetParams returns after its deferred recover: the zero values
ZeroLaunch == [filePath |-> "", params |-> <<>>]

NoTx == [open |-> FALSE, saved |-> FALSE, miner |-> [none |-> TRUE]]

(***************************************************************************)
(* The state after construction: the configuration is loaded, the miner    *)
(* row is verified and read (lines 59-88), no worker has been started.     *)
(***************************************************************************)
\* the extra-argument strings as the catalog holds them
CatalogArgs ==
    [OtherParams |-> [s \in SoftwareIds |-> MinerSoftwareRows[s].OtherParams],
     ExtraParams |-> [c \in ComboIds |-> MinerSoftwareAlgosRows[c].ExtraParams]]

Periods == { processCheckTime * k : k \in 0..MaxPeriodTicks }

Configs ==
    { [OptimizationCheckTime |-> p, UseEstimates |-> 1, EmailServer |-> TRUE] : p \in Periods }
    \cup { [OptimizationCheckTime |-> 2 * processCheckTime, UseEstimates |-> 0,
            EmailServer |-> FALSE] }

MinerRows ==
    { [MinerSoftwareAlgoID |-> 0, SendEmail |-> "true", OfflineNoticeSent |-> TRUE,
       LastCheckIn |-> 0] }

InitSamples ==
    << [MinerID |-> ThisMinerID, MinerSoftwareID |-> 1, AlgorithmID |-> 1,
        WorkPerSecond |-> 1, MhFactor |-> 1],
       [MinerID |-> ThisMinerID, MinerSoftwareID |-> 2, AlgorithmID |-> 2,
        WorkPerSecond |-> 4, MhFactor |-> 2] >>

InitPoolStats ==
    << [PoolID |-> 1, CoinPriceID |-> 1, ProfitEstimate |-> 3, ProfitActual24Hours |-> 1],
       [PoolID |-> 2, CoinPriceID |-> 1, ProfitEstimate |-> 3, ProfitActual24Hours |-> 1] >>

Idle ==
    /\ extPref = "none"
    /\ tx = NoTx
    /\ pc = "start"
    /\ site = "init"
    /\ best = 0
    /\ launch = ZeroLaunch
    /\ procState = "none"
    /\ runSpec = ZeroLaunch
    /\ killed = FALSE
    /\ orphan = FALSE
    /\ exists = FALSE
    /\ timesKilled = 0
    /\ kills = 0
    /\ secondsSlept = 0
    /\ clock = 0
    /\ selRuns = 0
    /\ lastNotice = "none"
    /\ envEvents = 0
    /\ exitReason = "none"

Init ==
    /\ config \in Configs
    /\ samples = InitSamples
    /\ doNotUse \in { [c \in ComboIds |-> "FALSE"],
                      [c \in ComboIds |-> IF c = 1 THEN "TRUE" ELSE "FALSE"] }
    /\ argStrings = CatalogArgs
    /\ poolStats = InitPoolStats
    /\ minerSoftwares = SoftwareIds
    /\ filePaths = SoftwareIds
    /\ dbMiner \in MinerRows
    /\ thisMiner = dbMiner
    /\ Idle

(***************************************************************************)
(* The worker process and the probe, as the operating system answers.      *)
(***************************************************************************)
Alive(st) == st = "running"

\* proc.Kill() then a proc.Wait() that returns: the process is gone, or its
\* identifier is still found afterwards (lines 113-115)
AfterKill(st) == IF Alive(st) THEN {"exited", "running"} ELSE {st}

\* exists, _ := process.PidExists(pid): true for a live process; false for a dead
\* one and whenever the probe fails, its error being dropped
PidExists(st) == IF Alive(st) THEN {TRUE, FALSE} ELSE {FALSE}

\* log.Fatal / log.Fatalf: os.Exit(1), no deferred call runs
Fatal(reason) ==
    /\ pc' = "exit"
    /\ exitReason' = reason

Selected ==
    getBestSoftwareAlgo(samples, poolStats, doNotUse, minerSoftwares, ThisMinerID,
                        config.UseEstimates)

(***************************************************************************)
(* main, lines 92-99: the first selection.                                 *)
(***************************************************************************)
\* A selection without the zero-value test of lines 323-327.
InitialSelectUnchecked ==
    /\ pc = "start"
    /\ selRuns' = selRuns + 1
    /\ \/ /\ Selected = {}
          /\ best' = 0
       \/ \E c \in Selected : best' = c
    /\ pc' = "build_lookup"
    /\ UNCHANGED <<config, argStrings, extPref, samples, poolStats, doNotUse, minerSoftwares, filePaths, dbMiner,
                   thisMiner, tx, site, launch, procState, runSpec, killed, orphan, exists,
                   timesKilled, kills, secondsSlept, clock, lastNotice,
                   envEvents, exitReason>>

InitialSelect ==
    /\ pc = "start"
    /\ selRuns' = selRuns + 1
    /\ \/ /\ Selected = {}
          /\ Fatal("NoViableOptimization")
          /\ UNCHANGED best
       \/ /\ \E c \in Selected : best' = c
          /\ pc' = "build_lookup"
          /\ UNCHANGED exitReason
    /\ UNCHANGED <<config, argStrings, extPref, samples, poolStats, doNotUse, minerSoftwares, filePaths, dbMiner,
                   thisMiner, tx, site, launch, procState, runSpec, killed, orphan, exists,
                   timesKilled, kills, secondsSlept, clock, lastNotice,
                   envEvents>>

(***************************************************************************)
(* changeAlgoGetParams, lines 189-207: begin, locate the records.          *)
(***************************************************************************)
BuildLookup ==
    /\ pc = "build_lookup"
    /\ LET sw == MinerSoftwareAlgosRows[best].MinerSoftwareID
       IN \/ /\ sw \notin minerSoftwares
             /\ Fatal("BadLink")
             /\ UNCHANGED tx
          \/ /\ sw \in minerSoftwares
             /\ sw \notin filePaths
             /\ Fatal("NoFilePath")
             /\ UNCHANGED tx
          \/ /\ sw \in minerSoftwares
             /\ sw \in filePaths
             /\ tx' = [open |-> TRUE, saved |-> FALSE, miner |-> [none |-> TRUE]]
             /\ pc' = "build_save"
             /\ UNCHANGED exitReason
    /\ UNCHANGED <<config, argStrings, extPref, samples, poolStats, doNotUse, minerSoftwares, filePaths, dbMiner,
                   thisMiner, site, best, launch, procState, runSpec, killed, orphan,
                   exists, timesKilled, kills, secondsSlept, clock, selRuns,
                   lastNotice, envEvents>>

\* The Save of line 223 made on db instead of tx: written at once.
BuildSaveOutsideTx ==
    /\ pc = "build_save"
    /\ ~(config.EmailServer /\ dbMiner.SendEmail = "null")
    /\ lastNotice' = IF config.EmailServer /\ dbMiner.SendEmail = "true"
                     THEN "change" ELSE "no"
    /\ thisMiner' = [dbMiner EXCEPT !.MinerSoftwareAlgoID = best,
                                    !.OfflineNoticeSent = FALSE]
    /\ dbMiner' = thisMiner'
    /\ tx' = [open |-> TRUE, saved |-> TRUE, miner |-> thisMiner']
    /\ pc' = "build_commit"
    /\ UNCHANGED <<config, argStrings, extPref, samples, poolStats, doNotUse, minerSoftwares, filePaths,
                   site, best, launch, procState, runSpec, killed, orphan, exists,
                   timesKilled, kills, secondsSlept, clock, selRuns, envEvents,
                   exitReason>>

(***************************************************************************)
(* changeAlgoGetParams, lines 213-223: re-read the miner, notify, set the  *)
(* new algo and Save inside the transaction.  A nil SendEmail panics at    *)
(* line 216; the deferred recover (190-194) rolls back and the function    *)
(* returns its zero values.                                                *)
(***************************************************************************)
BuildSave ==
    /\ pc = "build_save"
    /\ \/ /\ config.EmailServer
          /\ dbMiner.SendEmail = "null"
          /\ thisMiner' = dbMiner
          /\ tx' = NoTx
          /\ launch' = ZeroLaunch
          /\ lastNotice' = "no"
          /\ pc' = "open"
       \/ /\ ~(config.EmailServer /\ dbMiner.SendEmail = "null")
          /\ lastNotice' = IF config.EmailServer /\ dbMiner.SendEmail = "true"
                           THEN "change" ELSE "no"
          /\ thisMiner' = [dbMiner EXCEPT !.MinerSoftwareAlgoID = best,
                                          !.OfflineNoticeSent = FALSE]
          /\ tx' = [open |-> TRUE, saved |-> TRUE, miner |-> thisMiner']
          /\ pc' = "build_commit"
          /\ UNCHANGED launch
    /\ UNCHANGED <<config, argStrings, extPref, samples, poolStats, doNotUse, minerSoftwares, filePaths, dbMiner,
                   site, best, procState, runSpec, killed, orphan, exists, timesKilled,
                   kills, secondsSlept, clock, selRuns, envEvents, exitReason>>

(***************************************************************************)
(* changeAlgoGetParams, lines 225-254: pool URL, parameters, Commit.       *)
(***************************************************************************)
BuildCommit ==
    /\ pc = "build_commit"
    /\ \/ /\ dbMiner' = tx.miner
          /\ launch' = LaunchSpecOf(best)
          /\ pc' = "open"
          /\ UNCHANGED exitReason
       \/ /\ Fatal("CommitFailed")
          /\ UNCHANGED <<dbMiner, launch>>
    /\ tx' = NoTx
    /\ UNCHANGED <<config, argStrings, extPref, samples, poolStats, doNotUse, minerSoftwares, filePaths,
                   thisMiner, site, best, procState, runSpec, killed, orphan, exists,
                   timesKilled, kills, secondsSlept, clock, selRuns,
                   lastNotice, envEvents>>

(***************************************************************************)
(* openProcess, lines 334-348, at its three call sites (96, 150, 169).     *)
(***************************************************************************)
OpenProcess ==
    /\ pc = "open"
    /\ \/ /\ launch.filePath # ""
          /\ procState' = "running"
          /\ runSpec' = launch
          /\ killed' = FALSE
          /\ orphan' = (orphan \/ Alive(procState))
          /\ pc' = "loop"
          /\ UNCHANGED exitReason
       \/ /\ Fatal("StartFailed")
          /\ UNCHANGED <<procState, runSpec, killed, orphan>>
    /\ UNCHANGED <<config, argStrings, extPref, samples, poolStats, doNotUse, minerSoftwares, filePaths, dbMiner,
                   thisMiner, tx, site, best, launch, exists, timesKilled, kills,
                   secondsSlept, clock, selRuns, lastNotice, envEvents>>

(***************************************************************************)
(* main, lines 104-110: the head of the loop.                              *)
(***************************************************************************)
\* The test of line 106 without its secondsSlept > 0.
TimeToOptimizeAtZero ==
    /\ config.OptimizationCheckTime # 0
    /\ secondsSlept % config.OptimizationCheckTime = 0

\* The test of line 106 as an equality with the period.
TimeToOptimizeAtPeriodOnly ==
    /\ secondsSlept > 0
    /\ secondsSlept = config.OptimizationCheckTime

\* secondsSlept > 0 && (secondsSlept%config.OptimizationCheckTime == 0)
TimeToOptimize ==
    /\ secondsSlept > 0
    /\ config.OptimizationCheckTime # 0
    /\ secondsSlept % config.OptimizationCheckTime = 0

\* the modulo of line 106 divides by zero
ModuloPanics == secondsSlept > 0 /\ config.OptimizationCheckTime = 0

\* A re-optimization that switches without the test of line 110.
ReoptimizeAlwaysSwitches ==
    /\ pc = "loop"
    /\ TimeToOptimize
    /\ secondsSlept' = 0
    /\ selRuns' = selRuns + 1
    /\ \/ /\ Selected = {}
          /\ Fatal("NoViableOptimization")
          /\ UNCHANGED <<best, site>>
       \/ /\ \E c \in Selected : best' = c
          /\ pc' = "terminate"
          /\ site' = "switch"
          /\ UNCHANGED exitReason
    /\ UNCHANGED <<config, argStrings, extPref, samples, poolStats, doNotUse, minerSoftwares, filePaths, dbMiner,
                   thisMiner, tx, launch, procState, runSpec, killed, orphan, exists,
                   timesKilled, kills, clock, lastNotice, envEvents>>

Reoptimize ==
    /\ pc = "loop"
    /\ TimeToOptimize
    /\ secondsSlept' = 0
    /\ selRuns' = selRuns + 1
    /\ \/ /\ Selected = {}
          /\ Fatal("NoViableOptimization")
          /\ UNCHANGED <<best, site>>
       \/ /\ \E c \in Selected :
                /\ best' = c
                /\ \/ /\ c # thisMiner.MinerSoftwareAlgoID
                      /\ pc' = "terminate"
                      /\ site' = "switch"
                   \/ /\ c = thisMiner.MinerSoftwareAlgoID
                      /\ pc' = "loop"
                      /\ UNCHANGED site
          /\ UNCHANGED exitReason
    /\ UNCHANGED <<config, argStrings, extPref, samples, poolStats, doNotUse, minerSoftwares, filePaths, dbMiner,
                   thisMiner, tx, launch, procState, runSpec, killed, orphan, exists,
                   timesKilled, kills, clock, lastNotice, envEvents>>

\* A panic in the loop: the deferred proc.Kill() (97-99) runs, then the deferred
\* recover (72-76), and main returns.
LoopPanic ==
    /\ pc = "loop"
    /\ ModuloPanics
    /\ killed' = TRUE
    /\ procState' \in AfterKill(procState)
    /\ pc' = "exit"
    /\ exitReason' = "panic"
    /\ UNCHANGED <<config, argStrings, extPref, samples, poolStats, doNotUse, minerSoftwares, filePaths, dbMiner,
                   thisMiner, tx, site, best, launch, runSpec, orphan, exists, timesKilled,
                   kills, secondsSlept, clock, selRuns, lastNotice, envEvents>>

(***************************************************************************)
(* checkIn, lines 260-263: db.Save writes every column of the struct.      *)
(***************************************************************************)
checkIn(m, now) == [m EXCEPT !.LastCheckIn = now]

(***************************************************************************)
(* main, lines 153-161: sleep, accumulate, probe, heartbeat.               *)
(***************************************************************************)
PollTick ==
    /\ pc = "loop"
    /\ ~TimeToOptimize
    /\ ~ModuloPanics
    /\ clock < MaxTicks
    /\ clock' = clock + 1
    /\ secondsSlept' = secondsSlept + processCheckTime
    /\ \E e \in PidExists(procState) :
          /\ exists' = e
          /\ \/ /\ e
                /\ thisMiner' = checkIn(thisMiner, clock')
                /\ dbMiner' = thisMiner'
                /\ UNCHANGED <<pc, site>>
             \/ /\ ~e
                /\ pc' = "respawn"
                /\ site' = "respawn"
                /\ UNCHANGED <<thisMiner, dbMiner>>
    /\ UNCHANGED <<config, argStrings, extPref, samples, poolStats, doNotUse, minerSoftwares, filePaths, tx,
                   best, launch, procState, runSpec, killed, orphan, timesKilled, kills,
                   selRuns, lastNotice, envEvents, exitReason>>

(***************************************************************************)
(* main, lines 111-117: the first Kill and Wait of a switch, and the probe.*)
(* proc.Wait() returns only once the process has exited or cannot be       *)
(* waited for; for a live child that ignores the kill it does not return.  *)
(***************************************************************************)
TerminateFirst ==
    /\ pc = "terminate"
    /\ killed' = TRUE
    /\ timesKilled' = 0
    /\ \/ /\ Alive(procState)
          /\ pc' = "blocked"
          /\ kills' = 1
          /\ UNCHANGED <<procState, exists>>
       \/ /\ procState' \in AfterKill(procState)
          /\ exists' \in PidExists(procState')
          /\ pc' = IF exists' THEN "killloop" ELSE "build_lookup"
          /\ kills' = IF exists' THEN 1 ELSE 0
    /\ UNCHANGED <<config, argStrings, extPref, samples, poolStats, doNotUse, minerSoftwares, filePaths, dbMiner,
                   thisMiner, tx, site, best, launch, runSpec, orphan, secondsSlept, clock,
                   selRuns, lastNotice, envEvents, exitReason>>

(***************************************************************************)
(* main, lines 119-148: one pass of `for exists`, or its end.              *)
(***************************************************************************)
\* A kill loop that takes a failed probe of a live process for "still there".
KillRetryConfirms ==
    /\ pc = "killloop"
    /\ exists
    /\ \/ /\ timesKilled + 1 > maxKillNumber
          /\ timesKilled' = timesKilled + 1
          /\ lastNotice' = IF config.EmailServer THEN "fatal" ELSE lastNotice
          /\ Fatal("Unkillable")
          /\ UNCHANGED <<kills, killed, procState, exists>>
       \/ /\ timesKilled + 1 <= maxKillNumber
          /\ killed' = TRUE
          /\ procState' \in AfterKill(procState)
          /\ exists' \in PidExists(procState')
          /\ IF exists' \/ Alive(procState')
                THEN /\ timesKilled' = timesKilled + 1
                     /\ kills' = kills + 1
                     /\ UNCHANGED pc
                ELSE /\ timesKilled' = 0
                     /\ kills' = 0
                     /\ pc' = "build_lookup"
          /\ UNCHANGED <<lastNotice, exitReason>>
    /\ UNCHANGED <<config, argStrings, extPref, samples, poolStats, doNotUse, minerSoftwares, filePaths, dbMiner,
                   thisMiner, tx, site, best, launch, runSpec, orphan, secondsSlept, clock,
                   selRuns, envEvents>>

KillRetry ==
    /\ pc = "killloop"
    /\ exists
    /\ \/ /\ timesKilled + 1 > maxKillNumber
          /\ timesKilled' = timesKilled + 1
          /\ lastNotice' = IF config.EmailServer THEN "fatal" ELSE lastNotice
          /\ Fatal("Unkillable")
          /\ UNCHANGED <<kills, killed, procState, exists>>
       \/ /\ timesKilled + 1 <= maxKillNumber
          /\ killed' = TRUE
          /\ procState' \in AfterKill(procState)
          /\ exists' \in PidExists(procState')
          /\ IF exists'
                THEN /\ timesKilled' = timesKilled + 1
                     /\ kills' = kills + 1
                     /\ UNCHANGED pc
                ELSE /\ timesKilled' = 0
                     /\ kills' = 0
                     /\ pc' = "build_lookup"
          /\ UNCHANGED <<lastNotice, exitReason>>
    /\ UNCHANGED <<config, argStrings, extPref, samples, poolStats, doNotUse, minerSoftwares, filePaths, dbMiner,
                   thisMiner, tx, site, best, launch, runSpec, orphan, secondsSlept, clock,
                   selRuns, envEvents>>

\* A respawn that builds the launch spec again instead of reusing it.
RespawnRebuilds ==
    /\ pc = "respawn"
    /\ killed' = TRUE
    /\ procState' \in AfterKill(procState)
    /\ pc' = "build_lookup"
    /\ UNCHANGED <<config, argStrings, extPref, samples, poolStats, doNotUse, minerSoftwares, filePaths, dbMiner,
                   thisMiner, tx, site, best, launch, runSpec, orphan, exists, timesKilled,
                   kills, secondsSlept, clock, selRuns, lastNotice, envEvents,
                   exitReason>>

(***************************************************************************)
(* main, lines 163-169: the worker was reported gone; Kill, Wait, reopen.  *)
(***************************************************************************)
RespawnKill ==
    /\ pc = "respawn"
    /\ killed' = TRUE
    /\ \/ /\ Alive(procState)
          /\ pc' = "blocked"
          /\ UNCHANGED procState
       \/ /\ procState' \in AfterKill(procState)
          /\ pc' = "open"
    /\ UNCHANGED <<config, argStrings, extPref, samples, poolStats, doNotUse, minerSoftwares, filePaths, dbMiner,
                   thisMiner, tx, site, best, launch, runSpec, orphan, exists, timesKilled,
                   kills, secondsSlept, clock, selRuns, lastNotice, envEvents,
                   exitReason>>

\* A proc.Wait() that did not return (line 112 or 166) returns when the process exits.
WaitReturns ==
    /\ pc = "blocked"
    /\ ~Alive(procState)
    /\ \/ /\ site = "switch"
          /\ exists' \in PidExists(procState)
          /\ pc' = IF exists' THEN "killloop" ELSE "build_lookup"
          /\ kills' = IF exists' THEN kills ELSE 0
       \/ /\ site = "respawn"
          /\ pc' = "open"
          /\ UNCHANGED <<exists, kills>>
    /\ UNCHANGED <<config, argStrings, extPref, samples, poolStats, doNotUse, minerSoftwares, filePaths, dbMiner,
                   thisMiner, tx, site, best, launch, procState, runSpec, killed, orphan,
                   timesKilled, secondsSlept, clock, selRuns, lastNotice,
                   envEvents, exitReason>>

(***************************************************************************)
(* The rest of the world: the worker itself, and the other programs that   *)
(* write the database while this one runs.                                 *)
(***************************************************************************)
WorkerExits ==
    /\ pc \in {"loop", "blocked"}
    /\ Alive(procState)
    /\ procState' = "exited"
    /\ UNCHANGED <<config, argStrings, extPref, samples, poolStats, doNotUse, minerSoftwares, filePaths, dbMiner,
                   thisMiner, tx, pc, site, best, launch, runSpec, killed, orphan, exists,
                   timesKilled, kills, secondsSlept, clock, selRuns, lastNotice,
                   envEvents, exitReason>>

\* A write by another program lands between two steps of this one. Rows that only
\* the selector reads are written at the loop head, rows the builder looks up also
\* before its lookups, the miner row also while the builder's transaction is open.
OthersWrite(at) ==
    /\ pc \in at
    /\ envEvents < MaxEnvEvents
    /\ envEvents' = envEvents + 1

\* what the statistics collectors append while the supervisor runs
NewSamples == { s \in SampleDomain : s.WorkPerSecond = 4 /\ s.MhFactor = 2 }

NewPoolStats == { s \in PoolStatDomain : s.CoinPriceID = 2 }

StatsWritten ==
    /\ OthersWrite({"loop"})
    /\ \/ \E s \in NewSamples : samples' = Append(samples, s) /\ UNCHANGED poolStats
       \/ \E s \in NewPoolStats : poolStats' = Append(poolStats, s) /\ UNCHANGED samples
    /\ UNCHANGED <<config, argStrings, extPref, doNotUse, minerSoftwares, filePaths, dbMiner,
                   thisMiner, tx, pc, site, best, launch, procState, runSpec, killed, orphan,
                   exists, timesKilled, kills, secondsSlept, clock, selRuns,
                   lastNotice, exitReason>>

CatalogWritten ==
    /\ \/ /\ OthersWrite({"loop"})
          /\ \E c \in ComboIds : \E v \in {"FALSE", "TRUE"} :
                /\ v # doNotUse[c]
                /\ doNotUse' = [doNotUse EXCEPT ![c] = v]
          /\ UNCHANGED <<minerSoftwares, filePaths>>
       \/ /\ OthersWrite({"loop", "build_lookup"})
          /\ \E sw \in minerSoftwares : minerSoftwares' = minerSoftwares \ {sw}
          /\ UNCHANGED <<doNotUse, filePaths>>
       \/ /\ OthersWrite({"loop", "build_lookup"})
          /\ \E sw \in filePaths : filePaths' = filePaths \ {sw}
          /\ UNCHANGED <<doNotUse, minerSoftwares>>
    /\ UNCHANGED <<config, argStrings, extPref, samples, poolStats, dbMiner,
                   thisMiner, tx, pc, site, best, launch, procState, runSpec, killed, orphan,
                   exists, timesKilled, kills, secondsSlept, clock, selRuns,
                   lastNotice, exitReason>>

MinerWritten ==
    /\ OthersWrite({"loop", "build_lookup", "build_commit"})
    /\ \/ \E v \in {"true", "false", "null"} :
             /\ v # dbMiner.SendEmail
             /\ dbMiner' = [dbMiner EXCEPT !.SendEmail = v]
             /\ extPref' = v
       \/ /\ ~dbMiner.OfflineNoticeSent
          /\ dbMiner' = [dbMiner EXCEPT !.OfflineNoticeSent = TRUE]
          /\ UNCHANGED extPref
    /\ UNCHANGED <<config, argStrings, samples, poolStats, doNotUse, minerSoftwares, filePaths,
                   thisMiner, tx, pc, site, best, launch, procState, runSpec, killed, orphan,
                   exists, timesKilled, kills, secondsSlept, clock, selRuns,
                   lastNotice, exitReason>>

Supervisor ==
    \/ InitialSelect
    \/ BuildLookup
    \/ BuildSave
    \/ BuildCommit
    \/ OpenProcess
    \/ Reoptimize
    \/ LoopPanic
    \/ PollTick
    \/ TerminateFirst
    \/ KillRetry
    \/ RespawnKill
    \/ WaitReturns

Next ==
    \/ Supervisor
    \/ WorkerExits
    \/ StatsWritten
    \/ CatalogWritten
    \/ MinerWritten

Spec == Init /\ [][Next]_vars

\* The program's own steps are taken whenever they can be; nothing is assumed
\* of the worker or of the other programs.
FairSpec == Init /\ [][Next]_vars /\ WF_vars(Supervisor)

(***************************************************************************)
(* The selector on its own: any statistics the other programs may have     *)
(* left in the database, then the first selection (line 92).               *)
(***************************************************************************)
SelInit ==
    /\ argStrings = CatalogArgs
    /\ config \in { [OptimizationCheckTime |-> processCheckTime, UseEstimates |-> u,
                     EmailServer |-> FALSE] : u \in {0, 1} }
    /\ samples \in SeqsUpTo(SampleDomain, MaxSamples)
    /\ poolStats \in SeqsUpTo(PoolStatDomain, MaxPoolStats)
    /\ doNotUse \in { f \in [ComboIds -> {"NULL", "FALSE", "TRUE"}] :
                         f[1] # "FALSE" /\ f[2] # "NULL" }
    /\ minerSoftwares = SoftwareIds
    /\ filePaths = SoftwareIds
    /\ dbMiner = [MinerSoftwareAlgoID |-> 0, SendEmail |-> "false",
                  OfflineNoticeSent |-> FALSE, LastCheckIn |-> 0]
    /\ thisMiner = dbMiner
    /\ Idle

SelNext == InitialSelect

SelSpec == SelInit /\ [][SelNext]_vars

(***************************************************************************)
(* The launch spec builder on its own: any extra-argument strings the      *)
(* catalog may hold for the selected software and combination, then the    *)
(* first selection and the first call of changeAlgoGetParams (line 94).    *)
(***************************************************************************)
ArgChars == {"a", " "}

ArgStringDomain == SeqsUpTo(ArgChars, MaxArgLen)

ArgInit ==
    /\ config = [OptimizationCheckTime |-> processCheckTime, UseEstimates |-> 1,
                 EmailServer |-> FALSE]
    /\ argStrings \in { [OtherParams |-> [CatalogArgs.OtherParams EXCEPT ![2] = o],
                          ExtraParams |-> [CatalogArgs.ExtraParams EXCEPT ![2] = e]] :
                         o \in ArgStringDomain, e \in ArgStringDomain }
    /\ samples = InitSamples
    /\ poolStats = InitPoolStats
    /\ doNotUse = [c \in ComboIds |-> "FALSE"]
    /\ minerSoftwares = SoftwareIds
    /\ filePaths = SoftwareIds
    /\ dbMiner \in MinerRows
    /\ thisMiner = dbMiner
    /\ Idle

ArgNext ==
    \/ InitialSelect
    \/ BuildLookup
    \/ BuildSave
    \/ BuildCommit

ArgSpec == ArgInit /\ [][ArgNext]_vars

(***************************************************************************)
(* The loop with two combinations measured at the same score, so that a    *)
(* re-optimization may switch with the statistics untouched, while other   *)
(* programs write the miner row.                                           *)
(***************************************************************************)
\* estimate mode: 4 * 1 * 3 * 2 = 4 * 2 * 3 * 1
TieSamples ==
    << [MinerID |-> ThisMinerID, MinerSoftwareID |-> 1, AlgorithmID |-> 1,
        WorkPerSecond |-> 4, MhFactor |-> 1],
       [MinerID |-> ThisMinerID, MinerSoftwareID |-> 2, AlgorithmID |-> 2,
        WorkPerSecond |-> 4, MhFactor |-> 2] >>

TieConfig ==
    [OptimizationCheckTime |-> processCheckTime, UseEstimates |-> 1, EmailServer |-> TRUE]

PrefInit ==
    /\ config = TieConfig
    /\ argStrings = CatalogArgs
    /\ samples = TieSamples
    /\ poolStats = InitPoolStats
    /\ doNotUse = [c \in ComboIds |-> "FALSE"]
    /\ minerSoftwares = SoftwareIds
    /\ filePaths = SoftwareIds
    /\ dbMiner \in MinerRows
    /\ thisMiner = dbMiner
    /\ Idle

PrefNext ==
    \/ InitialSelect
    \/ BuildLookup
    \/ BuildSave
    \/ BuildCommit
    \/ OpenProcess
    \/ Reoptimize
    \/ PollTick
    \/ TerminateFirst
    \/ KillRetry
    \/ RespawnKill
    \/ WaitReturns
    \/ WorkerExits
    \/ MinerWritten

PrefSpec == PrefInit /\ [][PrefNext]_vars

(***************************************************************************)
(* The loop with a period that is not a multiple of the 30 seconds of a    *)
(* tick, the database left alone: the program's steps are taken whenever   *)
(* they can be, the worker exits or not as it pleases.                     *)
(***************************************************************************)
\* the periods whose first common multiple with the tick is within MaxTicks ticks
OffTickPeriods ==
    { p \in 1..(processCheckTime * MaxTicks) :
        /\ p % processCheckTime # 0
        /\ \E k \in 1..MaxTicks : (processCheckTime * k) % p = 0 }

TickInit ==
    /\ argStrings = CatalogArgs
    /\ config \in { [OptimizationCheckTime |-> p, UseEstimates |-> 1, EmailServer |-> TRUE] :
                       p \in OffTickPeriods }
    /\ samples = InitSamples
    /\ poolStats = InitPoolStats
    /\ doNotUse = [c \in ComboIds |-> "FALSE"]
    /\ minerSoftwares = SoftwareIds
    /\ filePaths = SoftwareIds
    /\ dbMiner \in MinerRows
    /\ thisMiner = dbMiner
    /\ Idle

TickNext ==
    \/ InitialSelect
    \/ BuildLookup
    \/ BuildSave
    \/ BuildCommit
    \/ OpenProcess
    \/ Reoptimize
    \/ PollTick
    \/ RespawnKill
    \/ WaitReturns
    \/ WorkerExits

TickSpec == TickInit /\ [][TickNext]_vars /\ WF_vars(Supervisor)

(***************************************************************************)
(* Control loop claims, checked under Spec.                                *)
(***************************************************************************)
\* C1: on a switch, the new worker is launched only when the previous worker
\* process is not alive.
C1_SwitchLaunchAfterOldDead ==
    [][(pc = "open" /\ site = "switch" /\ pc' = "loop") => ~Alive(procState)]_vars

\* C2: when the unkillable condition is raised, exactly 1000 Kill+Wait attempts
\* have been made against the process.
C2_FatalAfterExactly1000Attempts ==
    (pc = "exit" /\ exitReason = "Unkillable") => kills = maxKillNumber

\* C3: every termination started for a switch finishes: the process is confirmed
\* dead and the launch spec builder runs, or the program ends with a fatal
\* condition.
C3_TerminateFinishes ==
    (pc = "terminate") ~> (pc \in {"build_lookup", "exit"})

\* C4: in a polling tick whose probe reported the worker not alive, the selector
\* and the launch spec builder are not run, the launch spec and the Device's
\* active combination stay as they are, and the worker that is launched gets the
\* launch spec of the last launch.
InRespawn == site = "respawn" /\ pc \in {"respawn", "blocked", "open"}

C4_RespawnUsesSameLaunchSpec ==
    [][InRespawn =>
         /\ pc' \in {"respawn", "blocked", "open", "loop", "exit"}
         /\ selRuns' = selRuns
         /\ tx' = tx
         /\ launch' = launch
         /\ thisMiner' = thisMiner
         /\ dbMiner' = dbMiner
         /\ (pc' = "loop" => (Alive(procState') /\ runSpec' = runSpec /\ runSpec' = launch))
      ]_vars

\* The probe of the tick reported the worker gone, and a worker runs again.
C4_Witness ==
    /\ pc = "loop"
    /\ site = "respawn"
    /\ ~exists
    /\ Alive(procState)
    /\ ~killed
    /\ runSpec = LaunchSpecOf(dbMiner.MinerSoftwareAlgoID)
    /\ secondsSlept = processCheckTime

\* C5: at most one worker started by the program is alive, and a live worker was
\* started with the launch spec of the Device's active combination.
C5_OneWorkerOfActiveCombination ==
    /\ ~orphan
    /\ Alive(procState) =>
          /\ dbMiner.MinerSoftwareAlgoID \in ComboIds
          /\ runSpec = LaunchSpecOf(dbMiner.MinerSoftwareAlgoID)

\* C6: with a period P that is a positive multiple of 30, the selector is re-run
\* exactly when secondsSlept has reached P, after P/30 ticks since the last
\* reset, and secondsSlept is then 0 again; a polling tick happens only below P,
\* adds 30, and records exactly one heartbeat when its probe reports the worker
\* alive.
PeriodOnTick ==
    /\ config.OptimizationCheckTime > 0
    /\ config.OptimizationCheckTime % processCheckTime = 0

C6_ReoptimizationSchedule ==
    [][PeriodOnTick =>
         /\ (pc = "loop" /\ selRuns' # selRuns) =>
               /\ secondsSlept = config.OptimizationCheckTime
               /\ secondsSlept' = 0
               /\ selRuns' = selRuns + 1
               /\ clock' = clock
               /\ (clock * processCheckTime) % config.OptimizationCheckTime = 0
               /\ selRuns = (clock * processCheckTime) \div config.OptimizationCheckTime
         /\ (clock' # clock) =>
               /\ secondsSlept < config.OptimizationCheckTime
               /\ secondsSlept' = secondsSlept + processCheckTime
               /\ selRuns' = selRuns
               /\ exists' => dbMiner'.LastCheckIn = clock'
               /\ ~exists' => dbMiner'.LastCheckIn = dbMiner.LastCheckIn
         /\ (thisMiner'.LastCheckIn # thisMiner.LastCheckIn) => clock' = clock + 1
      ]_vars

\* Period 60: after the second tick, its heartbeat recorded, the selector
\* has just been re-run for the first time.
C6_Witness ==
    /\ config.OptimizationCheckTime = 2 * processCheckTime
    /\ clock = 2
    /\ dbMiner.LastCheckIn = 2
    /\ ~orphan
    /\ envEvents = 0
    /\ selRuns = 2
    /\ secondsSlept = 0

\* C7: a step of the launch spec builder leaves the persisted Device's active
\* combination and offline-notice flag as they were, or it is the successful
\* commit and sets both; a failing step leaves the persisted Device unchanged.
InBuilder == pc \in {"build_lookup", "build_save", "build_commit"}

C7_SwitchIsAllOrNothing ==
    [][(InBuilder /\ pc' # pc) =>
         \/ dbMiner' = dbMiner
         \/ /\ pc = "build_commit"
            /\ pc' = "open"
            /\ launch' # ZeroLaunch
            /\ dbMiner'.MinerSoftwareAlgoID = best
            /\ dbMiner'.OfflineNoticeSent = FALSE
      ]_vars

\* A switch whose commit failed: the old worker is gone, the struct in memory has
\* the new combination, the persisted Device still has the previous one.
C7_Witness ==
    /\ pc = "exit"
    /\ exitReason = "CommitFailed"
    /\ site = "switch"
    /\ thisMiner.MinerSoftwareAlgoID = best
    /\ dbMiner.MinerSoftwareAlgoID # best
    /\ dbMiner.MinerSoftwareAlgoID \in ComboIds
    /\ ~Alive(procState)

\* C8: once the first worker has been launched, the program never ends without
\* a kill having been issued to its current worker process.
C8_WorkerKilledOnExit ==
    (pc = "exit" /\ procState # "none") => killed

(***************************************************************************)
(* Selector claims, checked under SelSpec: `best` is what line 92 returned *)
(* for the statistics of the state.                                        *)
(***************************************************************************)
SelectorReturned == pc = "build_lookup" /\ site = "init" /\ selRuns = 1

Candidates == JoinedRows(samples, poolStats, minerSoftwares, ThisMinerID)

EligibleCandidates == { r \in Candidates : doNotUse[r.Combo] # "TRUE" }

\* The score of the specification, as a fraction:
\*   price * profit * (avg_work_rate * sample_norm_factor / pool_norm_factor),
\* profit being profit_estimate in estimate mode and 0.001 * profit_actual_24h in
\* actual mode
ScoreNum(r) ==
    r.Price * (IF config.UseEstimates = 1 THEN r.ProfitEstimate ELSE r.ProfitActual24Hours)
        * (r.WorkSum * r.StatMhFactor)

ScoreDen(r) ==
    (IF config.UseEstimates = 1 THEN 1 ELSE 1000) * r.WorkCount * r.PoolMhFactor

ScoreLess(r, q) == ScoreNum(r) * ScoreDen(q) < ScoreNum(q) * ScoreDen(r)

DistinctScores ==
    \A r, q \in EligibleCandidates : r # q => (ScoreLess(r, q) \/ ScoreLess(q, r))

\* C9: when the eligible candidate rows have pairwise distinct scores, the
\* selector returns the Combination of the eligible row with the maximum score,
\* in either mode.
C9_SelectorReturnsMaxScore ==
    (SelectorReturned /\ DistinctScores) =>
        \E r \in EligibleCandidates :
            /\ r.Combo = best
            /\ \A q \in EligibleCandidates : q # r => ScoreLess(q, r)

\* Both Combinations are eligible candidates with different scores, and in actual
\* mode the one returned is the one that the estimates would have ranked lower.
C9_Witness ==
    /\ SelectorReturned
    /\ DistinctScores
    /\ \E r, q \in EligibleCandidates :
          /\ r.Combo = best
          /\ q.Combo # best
          /\ config.UseEstimates = 0
          /\ r.Price * r.ProfitEstimate * r.WorkSum * r.StatMhFactor
                * (q.WorkCount * q.PoolMhFactor)
             < q.Price * q.ProfitEstimate * q.WorkSum * q.StatMhFactor
                * (r.WorkCount * r.PoolMhFactor)

\* C10: the selector never returns a Combination whose do_not_use is true.
C10_NeverReturnsDoNotUse == SelectorReturned => doNotUse[best] # "TRUE"

\* A do-not-use Combination has a candidate row that scores higher than every
\* eligible row, and another Combination was returned.
C10_Witness ==
    /\ SelectorReturned
    /\ \E r \in Candidates :
          /\ doNotUse[r.Combo] = "TRUE"
          /\ \A q \in EligibleCandidates : ScoreLess(q, r)

\* C11: a selector run that finds no eligible candidate row ends the program with
\* NoViableOptimization: nothing is selected, no worker is started, killed or
\* switched, no Device field is written; and an ended program takes no step.
C11_NoCandidateIsFatal ==
    [][/\ (selRuns' # selRuns /\ EligibleCandidates = {}) =>
             /\ pc' = "exit"
             /\ exitReason' = "NoViableOptimization"
             /\ UNCHANGED <<best, launch, procState, runSpec, killed, thisMiner, dbMiner,
                            tx, lastNotice>>
       /\ pc = "exit" => pc' = "exit" /\ procState' = procState
      ]_vars

\* Statistics and pool data exist for a Combination, every such Combination is
\* marked do_not_use, and the program has ended without a worker.
C11_Witness ==
    /\ pc = "exit"
    /\ exitReason = "NoViableOptimization"
    /\ Candidates # {}
    /\ EligibleCandidates = {}
    /\ procState = "none"

\* C12: a second invocation of the selector on the data of the first returns the
\* Combination the first returned (Selected' is what an invocation in the state
\* after the first can return).
C12_SelectorIdempotent ==
    [][(pc = "start" /\ pc' = "build_lookup") => Selected' = {best'}]_vars

\* the eligible rows with the maximum score
TopRows == { r \in EligibleCandidates : \A q \in EligibleCandidates : ~ScoreLess(r, q) }

UniqueTop == Cardinality({ r.Combo : r \in TopRows }) <= 1

\* C12 as amended: when the maximum score is attained by rows of one Combination
\* only, a second invocation on the same data returns the same Combination.
C12_IdempotentWithUniqueTop ==
    [][(pc = "start" /\ pc' = "build_lookup" /\ UniqueTop) => Selected' = {best'}]_vars

\* Two Combinations are eligible candidates, one of them alone has the maximum
\* score, and the selector has returned.
C12_Witness ==
    /\ SelectorReturned
    /\ UniqueTop
    /\ \E r, q \in EligibleCandidates : r.Combo # q.Combo

\* the samples of this miner for the software and algorithm of a Combination
SamplesOf(c) ==
    { i \in DOMAIN samples :
        /\ samples[i].MinerID = ThisMinerID
        /\ samples[i].MinerSoftwareID = MinerSoftwareAlgosRows[c].MinerSoftwareID
        /\ samples[i].AlgorithmID = MinerSoftwareAlgosRows[c].AlgorithmID }

\* C15: when the selector runs, every Combination has at most one candidate row,
\* and the row's average work rate is the average over all the samples of its
\* (device, software, algorithm) triple, whatever their normalization factors.
C15_OneAveragePerTriple ==
    SelectorReturned =>
        \A c \in ComboIds :
            /\ Cardinality({ r \in Candidates : r.Combo = c }) <= 1
            /\ \A r \in Candidates :
                  r.Combo = c =>
                      /\ r.WorkCount = Cardinality(SamplesOf(c))
                      /\ r.WorkSum = SumWork(samples, SamplesOf(c))

\* C16: a re-optimization whose selector returns the Device's active Combination
\* only resets secondsSlept: the worker is neither killed nor started, the launch
\* spec, the Device (in memory and persisted) and the notification stay as they
\* were, and the loop goes on.
C16_SameResultOnlyResets ==
    [][(pc = "loop" /\ selRuns' # selRuns /\ pc' # "exit"
            /\ best' = dbMiner.MinerSoftwareAlgoID) =>
         /\ secondsSlept' = 0
         /\ pc' = "loop"
         /\ UNCHANGED <<procState, runSpec, killed, orphan, kills, timesKilled, launch,
                        thisMiner, dbMiner, tx, lastNotice, site, clock>>
      ]_vars

\* The selector has been re-run after another program changed the statistics,
\* it returned the active Combination, and the first worker is still running.
C16_Witness ==
    /\ pc = "loop"
    /\ selRuns = 2
    /\ secondsSlept = 0
    /\ clock > 0
    /\ envEvents = 1
    /\ (samples # InitSamples \/ poolStats # InitPoolStats)
    /\ site = "init"
    /\ best = dbMiner.MinerSoftwareAlgoID
    /\ Alive(procState)
    /\ ~killed

\* C18: a polling tick that records a heartbeat changes only the last-check-in
\* of the persisted Device: its active Combination, offline-notice flag and
\* notification preference are afterwards what they were just before the tick.
C18_HeartbeatWritesOnlyLastCheckIn ==
    [][(clock' # clock /\ exists') =>
          dbMiner' = [dbMiner EXCEPT !.LastCheckIn = clock']]_vars

PeriodOffTick ==
    /\ config.OptimizationCheckTime > 0
    /\ config.OptimizationCheckTime % processCheckTime # 0

FirstCommonMultiple ==
    LET p == config.OptimizationCheckTime
    IN processCheckTime
         * (CHOOSE k \in 1..p :
               /\ (processCheckTime * k) % p = 0
               /\ \A j \in 1..(k - 1) : (processCheckTime * j) % p # 0)

RECURSIVE Tokens(_)
Tokens(s) ==
    IF s = <<>> THEN <<>>
    ELSE IF Head(s) = " " THEN Tokens(Tail(s))
    ELSE LET n == CHOOSE k \in 1..Len(s) :
                     /\ \A j \in 1..k : s[j] # " "
                     /\ (k = Len(s) \/ s[k + 1] = " ")
         IN <<SubSeq(s, 1, n)>> \o Tokens(SubSeq(s, n + 1, Len(s)))

BuilderReturned == pc = "open" /\ site = "init" /\ launch # ZeroLaunch

\* C14: the argument list the builder returns is the nine core arguments in
\* their order, then the tokens of the software's extra-arguments string, then
\* the tokens of the combination's; an empty string adds nothing and no element
\* that comes from splitting is empty.
C14_ArgumentList ==
    BuilderReturned =>
        LET algo == MinerSoftwareAlgosRows[best]
            soft == MinerSoftwareRows[algo.MinerSoftwareID]
            p == launch.params
            other == Tokens(argStrings.OtherParams[algo.MinerSoftwareID])
            extra == Tokens(argStrings.ExtraParams[best])
        IN /\ Len(p) = 9 + Len(other) + Len(extra)
           /\ SubSeq(p, 1, 9) = << <<soft.Name>>,
                                   <<soft.AlgoParam>>, <<algo.Name>>,
                                   <<soft.PoolParam>>, GeneratePoolURL(algo.AlgorithmID),
                                   <<soft.WalletParam>>, Wallet,
                                   <<soft.PasswordParam>>, PoolPassword >>
           /\ SubSeq(p, 10, Len(p)) = other \o extra
           /\ \A i \in 10..Len(p) : p[i] # <<>>

\* C13: a combination switch of the running loop that follows a write of the
\* notification preference by another program requests the change notification
\* exactly when an email server is configured and the preference written by
\* that program is "true".
C13_SwitchUsesExternalPreference ==
    [][(pc = "build_save" /\ site = "switch" /\ extPref # "none") =>
          (lastNotice' = "change" <=> (config.EmailServer /\ extPref = "true"))]_vars

====
